---------------------------- MODULE Spec2Model ----------------------------
(***************************************************************************)
(* SwarScript: the notation engine (notation_engine.py), the Taal model    *)
(* (taal_definitions.py) and the beat grid (beat_grid.py).                 *)
(*                                                                         *)
(* A Python str is modelled as a sequence of one-character strings, so     *)
(* that strip, split, join, replace and the placement of combining marks   *)
(* are computed, not assumed.  A combining mark is one element.            *)
(***************************************************************************)
EXTENDS Integers, Sequences, FiniteSets, TLC

VARIABLES taal, matras, vibhags, last, query

vars == <<taal, matras, vibhags, last, query>>

(***************************************************************************)
(* Bounds of the model.                                                    *)
(***************************************************************************)
\* Largest total_matras of the generated (non-catalog) Taals.
MaxMatras == 3

(***************************************************************************)
(* Python str operations.                                                  *)
(***************************************************************************)
\* str.isspace for the ASCII whitespace the model's texts contain.
IsSpace(c) == c \in {" ", "\t", "\n"}

RECURSIVE LStrip(_)
LStrip(s) ==
    IF s # <<>> /\ IsSpace(Head(s)) THEN LStrip(Tail(s)) ELSE s

RECURSIVE RStrip(_)
RStrip(s) ==
    IF s # <<>> /\ IsSpace(s[Len(s)]) THEN RStrip(SubSeq(s, 1, Len(s) - 1)) ELSE s

\* str.strip()
Strip(s) == RStrip(LStrip(s))

\* str.split() without arguments: the maximal runs of non-whitespace.
RECURSIVE SplitWs(_, _, _)
SplitWs(s, cur, acc) ==
    IF s = <<>> THEN (IF cur = <<>> THEN acc ELSE Append(acc, cur))
    ELSE IF IsSpace(Head(s))
         THEN SplitWs(Tail(s), <<>>, IF cur = <<>> THEN acc ELSE Append(acc, cur))
         ELSE SplitWs(Tail(s), Append(cur, Head(s)), acc)

Split(s) == SplitWs(s, <<>>, <<>>)

\* sep.join(parts)
RECURSIVE Join(_, _)
Join(sep, parts) ==
    IF parts = <<>> THEN <<>>
    ELSE IF Len(parts) = 1 THEN parts[1]
    ELSE parts[1] \o sep \o Join(sep, Tail(parts))

LowerLetters ==
    <<"a","b","c","d","e","f","g","h","i","j","k","l","m",
      "n","o","p","q","r","s","t","u","v","w","x","y","z">>

UpperLetters ==
    <<"A","B","C","D","E","F","G","H","I","J","K","L","M",
      "N","O","P","Q","R","S","T","U","V","W","X","Y","Z">>

UpperChar(c) ==
    IF \E i \in DOMAIN LowerLetters : LowerLetters[i] = c
    THEN UpperLetters[CHOOSE i \in DOMAIN LowerLetters : LowerLetters[i] = c]
    ELSE c

\* str.upper()
Upper(s) == [i \in DOMAIN s |-> UpperChar(s[i])]

\* whether s starts with sub
StartsWith(s, sub) ==
    Len(s) >= Len(sub) /\ SubSeq(s, 1, Len(sub)) = sub

\* sub in s
RECURSIVE Contains(_, _)
Contains(s, sub) ==
    IF Len(s) < Len(sub) THEN FALSE
    ELSE StartsWith(s, sub) \/ Contains(Tail(s), sub)

\* s.replace(sub, ''): the non-overlapping occurrences, left to right.
RECURSIVE Remove(_, _)
Remove(s, sub) ==
    IF s = <<>> THEN <<>>
    ELSE IF StartsWith(s, sub) THEN Remove(SubSeq(s, Len(sub) + 1, Len(s)), sub)
    ELSE <<Head(s)>> \o Remove(Tail(s), sub)

\* s.split(ch) for a one-character separator: empty parts are kept.
RECURSIVE SplitOnAcc(_, _, _, _)
SplitOnAcc(s, ch, cur, acc) ==
    IF s = <<>> THEN Append(acc, cur)
    ELSE IF Head(s) = ch THEN SplitOnAcc(Tail(s), ch, <<>>, Append(acc, cur))
    ELSE SplitOnAcc(Tail(s), ch, Append(cur, Head(s)), acc)

SplitOn(s, ch) == SplitOnAcc(s, ch, <<>>, <<>>)

\* s.count(ch)
Count(s, ch) == Cardinality({i \in DOMAIN s : s[i] = ch})

Digits == <<"0","1","2","3","4","5","6","7","8","9">>

IsDigit(c) == \E i \in DOMAIN Digits : Digits[i] = c

DigitVal(c) == (CHOOSE i \in DOMAIN Digits : Digits[i] = c) - 1

RECURSIVE DigitsValue(_, _)
DigitsValue(s, acc) ==
    IF s = <<>> THEN acc
    ELSE IF Head(s) = "_" THEN DigitsValue(Tail(s), acc)
    ELSE DigitsValue(Tail(s), 10 * acc + DigitVal(Head(s)))

\* the digits part of an int literal: digits, single underscores between them
DigitsOk(s) ==
    /\ s # <<>>
    /\ \A i \in DOMAIN s : IsDigit(s[i]) \/ s[i] = "_"
    /\ IsDigit(s[1]) /\ IsDigit(s[Len(s)])
    /\ \A i \in 1..(Len(s) - 1) : ~(s[i] = "_" /\ s[i + 1] = "_")

\* int() on a stripped literal: an optional sign, then the digits
ParseIntStripped(s) ==
    IF DigitsOk(IF s # <<>> /\ Head(s) \in {"+", "-"} THEN Tail(s) ELSE s)
    THEN [ok |-> TRUE,
          val |-> IF Head(s) = "-" THEN 0 - DigitsValue(Tail(s), 0)
                  ELSE IF Head(s) = "+" THEN DigitsValue(Tail(s), 0)
                  ELSE DigitsValue(s, 0)]
    ELSE [ok |-> FALSE, val |-> 0]

\* int(s): [ok |-> FALSE] stands for ValueError.
ParseInt(s) == ParseIntStripped(Strip(s))

\* str(n) for an integer
RECURSIVE StrNat(_)
StrNat(n) ==
    IF n < 10 THEN <<Digits[n + 1]>>
    ELSE StrNat(n \div 10) \o <<Digits[(n % 10) + 1]>>

Str(n) == IF n < 0 THEN <<"-">> \o StrNat(0 - n) ELSE StrNat(n)

\* ch * n
RECURSIVE Repeat(_, _)
Repeat(s, n) == IF n <= 0 THEN <<>> ELSE s \o Repeat(s, n - 1)

(***************************************************************************)
(* notation_engine.py                                                      *)
(***************************************************************************)
COMBINING_DOT_ABOVE == "U+0307"
COMBINING_DOT_BELOW == "U+0323"
COMBINING_UNDERLINE == "U+0332"
COMBINING_VERTICAL_LINE_ABOVE == "U+030D"

valid_bases ==
    { <<"S","A">>, <<"R","E">>, <<"G","A">>, <<"M","A">>,
      <<"P","A">>, <<"D","H","A">>, <<"N","I">> }

komal_bases == { <<"R","E">>, <<"G","A">>, <<"D","H","A">>, <<"N","I">> }

\* validate without the komal rule
ValidateAnyKomal(n) ==
    (IF n.base \notin valid_bases THEN <<"base">> ELSE <<>>)
    \o (IF n.tivra /\ n.base # <<"M","A">> THEN <<"tivra">> ELSE <<>>)
    \o (IF n.komal /\ n.tivra THEN <<"komal_and_tivra">> ELSE <<>>)
    \o (IF ~(-3 <= n.octave /\ n.octave <= 3) THEN <<"octave">> ELSE <<>>)

\* validate with the octave range open at both ends
ValidateOctaveOpen(n) ==
    (IF n.base \notin valid_bases THEN <<"base">> ELSE <<>>)
    \o (IF n.komal /\ n.base \notin komal_bases THEN <<"komal">> ELSE <<>>)
    \o (IF n.tivra /\ n.base # <<"M","A">> THEN <<"tivra">> ELSE <<>>)
    \o (IF n.komal /\ n.tivra THEN <<"komal_and_tivra">> ELSE <<>>)
    \o (IF ~(-3 < n.octave /\ n.octave < 3) THEN <<"octave">> ELSE <<>>)

\* Note.validate: the list of violated rules, in the order of the checks.
Validate(n) ==
    (IF n.base \notin valid_bases THEN <<"base">> ELSE <<>>)
    \o (IF n.komal /\ n.base \notin komal_bases THEN <<"komal">> ELSE <<>>)
    \o (IF n.tivra /\ n.base # <<"M","A">> THEN <<"tivra">> ELSE <<>>)
    \o (IF n.komal /\ n.tivra THEN <<"komal_and_tivra">> ELSE <<>>)
    \o (IF ~(-3 <= n.octave /\ n.octave <= 3) THEN <<"octave">> ELSE <<>>)

\* __post_init__ that reports the first violated rule only
PostInitFirstError(n) ==
    [ok |-> Validate(n) = <<>>, note |-> n,
     errors |-> IF Validate(n) = <<>> THEN <<>> ELSE <<Head(Validate(n))>>]

\* __post_init__ after the base is uppercased: ok is FALSE when validate()
\* reports anything and ValueError is raised
PostInit(n) == [ok |-> Validate(n) = <<>>, note |-> n, errors |-> Validate(n)]

\* Note(base, komal, tivra, octave)
NewNote(base, komal, tivra, octave) ==
    PostInit([base |-> Upper(base), komal |-> komal, tivra |-> tivra,
              octave |-> octave])

\* komal drawn as one underline after the whole base
UnderlinedOnce(s) == s \o <<COMBINING_UNDERLINE>>

RECURSIVE Underlined(_)
Underlined(s) ==
    IF s = <<>> THEN <<>>
    ELSE <<Head(s), COMBINING_UNDERLINE>> \o Underlined(Tail(s))

Abs(x) == IF x < 0 THEN 0 - x ELSE x

\* to_notation, step 3, with one dot whatever the octave
ApplyOctaveOneDot(n, result) ==
    IF n.octave > 0 THEN result \o <<COMBINING_DOT_ABOVE>>
    ELSE IF n.octave < 0 THEN result \o <<COMBINING_DOT_BELOW>>
         ELSE result

\* to_notation, step 3: the octave dots after the last character
ApplyOctave(n, result) ==
    IF n.octave > 0 THEN result \o Repeat(<<COMBINING_DOT_ABOVE>>, n.octave)
    ELSE IF n.octave < 0
         THEN result \o Repeat(<<COMBINING_DOT_BELOW>>, Abs(n.octave))
         ELSE result

\* to_notation, step 2: the tivra mark after the first character
ApplyTivra(n, result) ==
    ApplyOctave(n, IF n.tivra
                   THEN <<result[1], COMBINING_VERTICAL_LINE_ABOVE>> \o Tail(result)
                   ELSE result)

\* Note.to_notation; step 1 underlines every character of a komal note
ToNotation(n) ==
    ApplyTivra(n, IF n.komal THEN Underlined(n.base) ELSE n.base)

\* parse_note_spec that drops the sign of the octave it read
OctaveOfUnsigned(parts, komal, tivra, sign, n) ==
    [base |-> parts[1], komal |-> komal, tivra |-> tivra,
     octave |-> IF n.ok THEN n.val ELSE sign]

\* parse_note_spec: the octave read from parts[1], 1 or -1 when int() fails
OctaveOf(parts, komal, tivra, sign, n) ==
    [base |-> parts[1], komal |-> komal, tivra |-> tivra,
     octave |-> IF n.ok THEN sign * n.val ELSE sign]

\* parse_note_spec: spec.split(sign) and the octave after it
SplitOctave(parts, komal, tivra, sign) ==
    OctaveOf(parts, komal, tivra, sign, ParseInt(parts[2]))

\* parse_note_spec: "Extract octave"
ExtractOctave(spec, komal, tivra) ==
    IF Contains(spec, <<"+">>)
    THEN SplitOctave(SplitOn(spec, "+"), komal, tivra, 1)
    ELSE IF Contains(spec, <<"-">>) /\ Count(spec, "-") = 1
    THEN SplitOctave(SplitOn(spec, "-"), komal, tivra, -1)
    ELSE [base |-> spec, komal |-> komal, tivra |-> tivra, octave |-> 0]

\* parse_note_spec: "Extract tivra marker"
ExtractTivra(spec, komal) ==
    IF Contains(spec, <<"_", "T">>)
    THEN ExtractOctave(Remove(spec, <<"_", "T">>), komal, TRUE)
    ELSE ExtractOctave(spec, komal, FALSE)

\* parse_note_spec: "Extract komal marker"
ExtractKomal(spec) ==
    IF Contains(spec, <<"_", "K">>)
    THEN ExtractTivra(Remove(spec, <<"_", "K">>), TRUE)
    ELSE ExtractTivra(spec, FALSE)

\* NotationParser.parse_note_spec
ParseNoteSpec(spec) == ExtractKomal(Upper(Strip(spec)))

\* the body of the loop of parse_sequence: the Note, or nothing when its
\* construction raises ValueError
NoteOrSkip(r) == IF r.ok THEN <<r.note>> ELSE <<>>

NoteOfSpec(p) == NoteOrSkip(NewNote(p.base, p.komal, p.tivra, p.octave))

\* parse_sequence whose loop ends at the first token that fails validation
RECURSIVE ParsePartsUntilInvalid(_)
ParsePartsUntilInvalid(parts) ==
    IF parts = <<>> THEN <<>>
    ELSE IF NoteOfSpec(ParseNoteSpec(Head(parts))) = <<>> THEN <<>>
    ELSE NoteOfSpec(ParseNoteSpec(Head(parts))) \o ParsePartsUntilInvalid(Tail(parts))

\* NotationParser.parse_sequence: the tokens that fail validation are skipped.
RECURSIVE ParseParts(_)
ParseParts(parts) ==
    IF parts = <<>> THEN <<>>
    ELSE NoteOfSpec(ParseNoteSpec(Head(parts))) \o ParseParts(Tail(parts))

ParseSequence(sequence) == ParseParts(Split(Strip(sequence)))

\* NotationParser.generate_notation_sequence
GenerateNotationSequence(notes, separator) ==
    Join(separator, [i \in DOMAIN notes |-> ToNotation(notes[i])])

(***************************************************************************)
(* taal_definitions.py                                                     *)
(***************************************************************************)
\* x in lst, for a Python list
InList(x, lst) == \E i \in DOMAIN lst : lst[i] = x

RECURSIVE SumSeq(_)
SumSeq(s) == IF s = <<>> THEN 0 ELSE Head(s) + SumSeq(Tail(s))

\* __post_init__ without the loop over tali_positions
TaalPostInitKhaliOnly(t) ==
    /\ SumSeq(t.vibhag_structure) = t.total_matras
    /\ \A i \in DOMAIN t.khali_positions :
          ~(t.khali_positions[i] < 1 \/ t.khali_positions[i] > t.total_matras)

\* Taal.__post_init__: TRUE when no ValueError is raised.
TaalPostInit(t) ==
    /\ SumSeq(t.vibhag_structure) = t.total_matras
    /\ \A i \in DOMAIN t.khali_positions :
          ~(t.khali_positions[i] < 1 \/ t.khali_positions[i] > t.total_matras)
    /\ \A i \in DOMAIN t.tali_positions :
          ~(t.tali_positions[i] < 1 \/ t.tali_positions[i] > t.total_matras)

\* the loop of get_vibhag_for_matra; i is the 1-indexed vibhag
RECURSIVE VibhagLoop(_, _, _, _)
VibhagLoop(vs, i, cumulative, matra) ==
    IF i > Len(vs) THEN Len(vs)
    ELSE IF matra <= cumulative + vs[i] THEN i
    ELSE VibhagLoop(vs, i + 1, cumulative + vs[i], matra)

\* the same loop with the comparison off by one
RECURSIVE VibhagLoopStrict(_, _, _, _)
VibhagLoopStrict(vs, i, cumulative, matra) ==
    IF i > Len(vs) THEN Len(vs)
    ELSE IF matra < cumulative + vs[i] THEN i
    ELSE VibhagLoopStrict(vs, i + 1, cumulative + vs[i], matra)

GetVibhagForMatraStrict(t, matra) ==
    IF matra < 1 \/ matra > t.total_matras
    THEN [raised |-> TRUE, value |-> 0]
    ELSE [raised |-> FALSE, value |-> VibhagLoopStrict(t.vibhag_structure, 1, 0, matra)]

\* Taal.get_vibhag_for_matra; raised stands for ValueError
GetVibhagForMatra(t, matra) ==
    IF matra < 1 \/ matra > t.total_matras
    THEN [raised |-> TRUE, value |-> 0]
    ELSE [raised |-> FALSE, value |-> VibhagLoop(t.vibhag_structure, 1, 0, matra)]

RECURSIVE StartsLoop(_, _, _)
StartsLoop(counts, cumulative, starts) ==
    IF counts = <<>> THEN starts
    ELSE StartsLoop(Tail(counts), cumulative + Head(counts),
                    Append(starts, cumulative + Head(counts) + 1))

\* the loop run over the whole vibhag_structure instead of [:-1]
GetVibhagStartMatrasAll(t) == StartsLoop(t.vibhag_structure, 0, <<1>>)

\* Taal.get_vibhag_start_matras
GetVibhagStartMatras(t) ==
    StartsLoop(SubSeq(t.vibhag_structure, 1, Len(t.vibhag_structure) - 1), 0, <<1>>)

\* Taal.is_sam, is_khali, is_tali
TaalIsSam(t, matra) == matra = t.sam_position

TaalIsKhali(t, matra) == InList(matra, t.khali_positions)

TaalIsTali(t, matra) == InList(matra, t.tali_positions)

\* the accent tests in the order khali, sam, tali
GetMatraSymbolKhaliFirst(t, matra) ==
    IF TaalIsKhali(t, matra) THEN [raised |-> FALSE, value |-> <<"0">>]
    ELSE IF TaalIsSam(t, matra) THEN [raised |-> FALSE, value |-> <<"X">>]
    ELSE IF TaalIsTali(t, matra)
         THEN LET v == GetVibhagForMatra(t, matra)
              IN  [raised |-> v.raised,
                   value |-> IF v.raised THEN <<>> ELSE Str(v.value)]
         ELSE [raised |-> FALSE, value |-> <<>>]

\* Taal.get_matra_symbol
GetMatraSymbol(t, matra) ==
    IF TaalIsSam(t, matra) THEN [raised |-> FALSE, value |-> <<"X">>]
    ELSE IF TaalIsKhali(t, matra) THEN [raised |-> FALSE, value |-> <<"0">>]
    ELSE IF TaalIsTali(t, matra)
         THEN LET v == GetVibhagForMatra(t, matra)
              IN  [raised |-> v.raised,
                   value |-> IF v.raised THEN <<>> ELSE Str(v.value)]
         ELSE [raised |-> FALSE, value |-> <<>>]

MkTaal(name, total, structure, sam, khali, tali) ==
    [name |-> name, total_matras |-> total, vibhag_structure |-> structure,
     sam_position |-> sam, khali_positions |-> khali, tali_positions |-> tali]

TEENTAAL == MkTaal("teentaal", 16, <<4, 4, 4, 4>>, 1, <<9>>, <<1, 5, 13>>)

DADRA == MkTaal("dadra", 6, <<3, 3>>, 1, <<4>>, <<1>>)

JHAPTAAL == MkTaal("jhaptaal", 10, <<2, 3, 2, 3>>, 1, <<6>>, <<1, 3, 8>>)

EKTAAL == MkTaal("ektaal", 12, <<2, 2, 2, 2, 2, 2>>, 1, <<3, 7, 11>>, <<1, 5, 9>>)

RUPAK == MkTaal("rupak", 7, <<3, 2, 2>>, 1, <<1>>, <<4, 6>>)

KEHERWA == MkTaal("keherwa", 8, <<4, 4>>, 1, <<5>>, <<1>>)

TAAL_LIBRARY == {TEENTAAL, DADRA, JHAPTAAL, EKTAAL, RUPAK, KEHERWA}

(***************************************************************************)
(* Taals other than the catalog's: every vibhag structure of positive      *)
(* sizes with at most MaxMatras beats, every sam position and every khali  *)
(* and tali list within the cycle, each accepted by __post_init__.         *)
(***************************************************************************)
RECURSIVE SortedSeq(_)
SortedSeq(S) ==
    IF S = {} THEN <<>>
    ELSE LET m == CHOOSE x \in S : \A y \in S : x <= y
         IN  <<m>> \o SortedSeq(S \ {m})

Compositions(n) ==
    {s \in UNION {[1..k -> 1..n] : k \in 1..n} : SumSeq(s) = n}

TaalsOn(s) ==
    {MkTaal("generated", SumSeq(s), s, sam, SortedSeq(K), SortedSeq(T)) :
        sam \in 1..SumSeq(s), K \in SUBSET (1..SumSeq(s)),
        T \in SUBSET (1..SumSeq(s))}

GeneratedTaals ==
    {t \in UNION {TaalsOn(s) : s \in UNION {Compositions(m) : m \in 1..MaxMatras}} :
        TaalPostInit(t)}

(***************************************************************************)
(* beat_grid.py: MatraCell                                                 *)
(***************************************************************************)
\* the swars that set_swars assigns for swar_input
NewSwars(swar_input) ==
    IF Strip(swar_input) = <<"-">> THEN << <<"-">> >>
    ELSE IF Strip(swar_input) # <<>> THEN Split(Strip(swar_input))
    ELSE <<>>

\* _render_notation that emits nothing for a token without notes
RenderedOrNothing(notes, swar) ==
    IF notes # <<>> THEN GenerateNotationSequence(notes, <<" ">>) ELSE <<>>

\* _render_notation: the rendered notes, or the token itself when there is none
RenderedOrRaw(notes, swar) ==
    IF notes # <<>> THEN GenerateNotationSequence(notes, <<" ">>) ELSE swar

\* the iteration that appends nothing visible for the continuation token
RenderPartDashSilent(swar) ==
    IF swar = <<"-">> THEN <<>>
    ELSE RenderedOrRaw(ParseSequence(swar), swar)

\* one iteration of the loop of _render_notation.  parse_sequence catches the
\* ValueError of an invalid note itself, so the except branch adds no case.
RenderPart(swar) ==
    IF swar = <<"-">> THEN <<"-">>
    ELSE RenderedOrRaw(ParseSequence(swar), swar)

\* _render_notation that joins the parts with nothing between them
RenderNotationUnspaced(swars) ==
    IF swars = <<>> THEN <<>>
    ELSE Join(<<>>, [i \in DOMAIN swars |-> RenderPart(swars[i])])

\* MatraCell._render_notation: the value it stores in rendered_notation
RenderNotation(swars) ==
    IF swars = <<>> THEN <<>>
    ELSE Join(<<" ">>, [i \in DOMAIN swars |-> RenderPart(swars[i])])

\* set_swars that assigns the swars and leaves the cache as it was
AssignNoRender(cell, swars) == [cell EXCEPT !.swars = swars]

\* set_swars: the assignment of swars, then _render_notation
AssignAndRender(cell, swars) ==
    [cell EXCEPT !.swars = swars, !.rendered_notation = RenderNotation(swars)]

\* set_swars without its else branch: a blank input leaves the cell as it was
SetSwarsKeepOnBlank(cell, swar_input) ==
    IF NewSwars(swar_input) = <<>> THEN cell
    ELSE AssignAndRender(cell, NewSwars(swar_input))

\* set_swars that adds the new swars after the ones the cell holds
SetSwarsAppend(cell, swar_input) ==
    AssignAndRender(cell, cell.swars \o NewSwars(swar_input))

\* MatraCell.set_swars
SetSwars(cell, swar_input) == AssignAndRender(cell, NewSwars(swar_input))

\* MatraCell.is_empty
IsEmpty(cell) == Len(cell.swars) = 0

\* MatraCell.get_display_text
GetDisplayText(cell) ==
    IF cell.rendered_notation # <<>> THEN cell.rendered_notation ELSE <<>>

(***************************************************************************)
(* beat_grid.py: BeatGrid                                                  *)
(***************************************************************************)
\* the cell made with the 0-based index of the vibhag loop
NewCellVibhagFromZero(t, matra_num, vibhag_number) ==
    [matra_number |-> matra_num,
     vibhag_number |-> vibhag_number - 1,
     is_sam |-> TaalIsSam(t, matra_num),
     is_khali |-> TaalIsKhali(t, matra_num),
     is_tali |-> TaalIsTali(t, matra_num),
     symbol |-> GetMatraSymbol(t, matra_num).value,
     swars |-> <<>>,
     rendered_notation |-> <<>>]

\* MatraCell(matra_number, vibhag_number, is_sam, is_khali, is_tali, symbol)
NewCell(t, matra_num, vibhag_number) ==
    [matra_number |-> matra_num,
     vibhag_number |-> vibhag_number,
     is_sam |-> TaalIsSam(t, matra_num),
     is_khali |-> TaalIsKhali(t, matra_num),
     is_tali |-> TaalIsTali(t, matra_num),
     symbol |-> GetMatraSymbol(t, matra_num).value,
     swars |-> <<>>,
     rendered_notation |-> <<>>]

\* The loop of _initialize_grid over vibhag_structure.  A VibhagGroup holds
\* the same cell objects as the grid: its matras are positions in the grid's.
RECURSIVE InitLoop(_, _, _, _, _)
InitLoop(t, vibhag_idx, matra_num, cells, groups) ==
    IF vibhag_idx > Len(t.vibhag_structure)
    THEN [matras |-> cells, vibhags |-> groups]
    ELSE LET matra_count == t.vibhag_structure[vibhag_idx]
             made == [k \in 1..matra_count |->
                         NewCell(t, matra_num + k - 1, vibhag_idx)]
             vibhag == [vibhag_number |-> vibhag_idx,
                        start_matra |-> matra_num,
                        end_matra |-> matra_num + matra_count - 1,
                        matras |-> [k \in 1..matra_count |-> Len(cells) + k]]
         IN  InitLoop(t, vibhag_idx + 1, matra_num + Len(made),
                      cells \o made, Append(groups, vibhag))

\* _initialize_grid whose loop stops one matra before the end of the cycle
InitializeGridUpToLast(t) ==
    [matras |-> SubSeq(InitLoop(t, 1, 1, <<>>, <<>>).matras, 1, t.total_matras - 1),
     vibhags |-> InitLoop(t, 1, 1, <<>>, <<>>).vibhags]

\* BeatGrid.__init__ and _initialize_grid
InitializeGrid(t) == InitLoop(t, 1, 1, <<>>, <<>>)

\* set_matra_swars whose range check lets 0 through: matras[-1] is the last cell
SetMatraSwarsFromZero(ms, t, matra_number, swar_input) ==
    IF matra_number < 0 \/ matra_number > t.total_matras
    THEN [matras |-> ms, success |-> FALSE]
    ELSE LET idx == IF matra_number = 0 THEN Len(ms) ELSE matra_number
         IN  [matras |-> [ms EXCEPT ![idx] = SetSwars(@, swar_input)],
              success |-> TRUE]

\* set_matra_swars that calls set_swars on every cell of the beat's vibhag
SetMatraSwarsWholeVibhag(ms, t, matra_number, swar_input) ==
    IF matra_number < 1 \/ matra_number > t.total_matras
    THEN [matras |-> ms, success |-> FALSE]
    ELSE [matras |-> [i \in DOMAIN ms |->
                         IF ms[i].vibhag_number = ms[matra_number].vibhag_number
                         THEN SetSwars(ms[i], swar_input) ELSE ms[i]],
          success |-> TRUE]

\* BeatGrid.set_matra_swars: the cells and the value returned
SetMatraSwarsResult(ms, t, matra_number, swar_input) ==
    IF matra_number < 1 \/ matra_number > t.total_matras
    THEN [matras |-> ms, success |-> FALSE]
    ELSE [matras |-> [ms EXCEPT ![matra_number] = SetSwars(@, swar_input)],
          success |-> TRUE]

\* clear_grid that empties the swars and leaves the rendered notation
ClearCellsKeepRender(ms) ==
    [i \in DOMAIN ms |-> [ms[i] EXCEPT !.swars = <<>>]]

\* BeatGrid.clear_grid
ClearCells(ms) ==
    [i \in DOMAIN ms |-> [ms[i] EXCEPT !.swars = <<>>, !.rendered_notation = <<>>]]

NoMessage == [kind |-> "", count |-> 0, total |-> 0]

\* the loop of fill_from_sequence; i is the 0-indexed position in parts
RECURSIVE FillLoop(_, _, _, _)
FillLoop(ms, t, parts, i) ==
    IF i >= Len(parts) THEN ms
    ELSE FillLoop(IF i < t.total_matras
                  THEN [ms EXCEPT ![i + 1] = SetSwars(@, parts[i + 1])]
                  ELSE ms,
                  t, parts, i + 1)

\* fill_from_sequence with the count checked after the loop: the first
\* total_matras tokens are assigned before the failure is returned
FillPartsThenCheck(cleared, t, parts) ==
    IF parts = <<>>
    THEN [matras |-> cleared, success |-> TRUE,
          message |-> [kind |-> "Grid cleared", count |-> 0, total |-> 0]]
    ELSE IF Len(parts) > t.total_matras
    THEN [matras |-> FillLoop(cleared, t, parts, 0), success |-> FALSE,
          message |-> [kind |-> "Too many swars", count |-> Len(parts),
                       total |-> t.total_matras]]
    ELSE [matras |-> FillLoop(cleared, t, parts, 0), success |-> TRUE,
          message |-> [kind |-> "Filled", count |-> Len(parts), total |-> 0]]

\* fill_from_sequence after clear_grid and the split of the sequence
FillParts(cleared, t, parts) ==
    IF parts = <<>>
    THEN [matras |-> cleared, success |-> TRUE,
          message |-> [kind |-> "Grid cleared", count |-> 0, total |-> 0]]
    ELSE IF Len(parts) > t.total_matras
    THEN [matras |-> cleared, success |-> FALSE,
          message |-> [kind |-> "Too many swars", count |-> Len(parts),
                       total |-> t.total_matras]]
    ELSE [matras |-> FillLoop(cleared, t, parts, 0), success |-> TRUE,
          message |-> [kind |-> "Filled", count |-> Len(parts), total |-> 0]]

\* fill_from_sequence without the call of clear_grid
FillWithoutClear(ms, t, sequence) == FillParts(ms, t, Split(Strip(sequence)))

\* fill_from_sequence that counts the tokens first and clears the grid only
\* when it accepts them
FillCheckThenClear(ms, t, sequence) ==
    IF Len(Split(Strip(sequence))) > t.total_matras
    THEN FillParts(ms, t, Split(Strip(sequence)))
    ELSE FillParts(ClearCells(ms), t, Split(Strip(sequence)))

\* BeatGrid.fill_from_sequence: the cells and the (success, message) returned
FillFromSequenceResult(ms, t, sequence) ==
    FillParts(ClearCells(ms), t, Split(Strip(sequence)))

\* get_all_swars_as_sequence: the vibhags' slices of parts joined by " | "
JoinVibhags(parts, vs) ==
    Join(<<" ", "|", " ">>,
         [k \in DOMAIN vs |->
             Join(<<" ">>, SubSeq(parts, vs[k].start_matra, vs[k].end_matra))])

\* BeatGrid.get_all_swars_as_sequence
GetAllSwarsAsSequence(ms, vs) ==
    JoinVibhags([i \in DOMAIN ms |->
                    IF ms[i].swars # <<>> THEN Join(<<" ">>, ms[i].swars)
                    ELSE <<>>],
                vs)

\* BeatGrid.get_rendered_notation
GetRenderedNotation(ms) ==
    Join(<<" ">>,
         [i \in DOMAIN ms |->
             IF GetDisplayText(ms[i]) # <<>> THEN GetDisplayText(ms[i]) ELSE <<"-">>])

\* BeatGrid.is_complete
IsComplete(ms) == \A i \in DOMAIN ms : ~IsEmpty(ms[i])

\* BeatGrid.get_filled_count
GetFilledCount(ms) == Cardinality({i \in DOMAIN ms : ~IsEmpty(ms[i])})

(***************************************************************************)
(* The inputs of the grid operations.                                      *)
(***************************************************************************)
\* texts given to set_matra_swars: blank, the continuation token between
\* spaces, and three tokens: a komal note in lower case, an invalid token and
\* a tivra note two octaves up
SetTexts ==
    { <<" ", " ">>,
      <<" ", "-", " ">>,
      <<"r", "e", "_", "k", " ", "X", "Y", " ", "M", "A", "_", "t", "+", "2">> }

\* n tokens SA, separated by single spaces
ManySwars(n) == Join(<<" ">>, [i \in 1..n |-> <<"S", "A">>])

\* texts given to fill_from_sequence: empty, three tokens of which one is the
\* pipe, two tokens between tabs and spaces, and more tokens than any
\* generated Taal has matras
FillTexts ==
    { <<>>,
      <<"S", "A", " ", "|", " ", "-">>,
      <<" ", "N", "I", "-", "1", "\t", "P", "A", " ">>,
      ManySwars(MaxMatras + 1) }

\* the Taals of the grids that are mutated: for every number of matras the
\* structures of one and of two vibhags, with one choice of accents
GridTaals ==
    {t \in GeneratedTaals :
        /\ Len(t.vibhag_structure) <= 2
        /\ t.sam_position = 1
        /\ t.khali_positions = <<t.total_matras>>
        /\ t.tali_positions = <<1>>}

NoQuery ==
    [op |-> "", matra |-> 0, raised |-> FALSE, int |-> 0, seq |-> <<>>, str |-> <<>>]

NoCall ==
    [op |-> "__init__", matra_number |-> 0, swar_input |-> <<>>,
     success |-> TRUE, message |-> NoMessage]

\* BeatGrid(t)
Construct(t) ==
    /\ taal = t
    /\ matras = InitializeGrid(t).matras
    /\ vibhags = InitializeGrid(t).vibhags
    /\ last = NoCall
    /\ query = NoQuery

Init == \E t \in GridTaals : Construct(t)

SetMatraSwarsReturns(r, matra_number, swar_input) ==
    /\ matras' = r.matras
    /\ last' = [op |-> "set_matra_swars", matra_number |-> matra_number,
                swar_input |-> swar_input, success |-> r.success,
                message |-> NoMessage]
    /\ UNCHANGED <<taal, vibhags, query>>

SetMatraSwars(matra_number, swar_input) ==
    SetMatraSwarsReturns(SetMatraSwarsResult(matras, taal, matra_number, swar_input),
                         matra_number, swar_input)

ClearGrid ==
    /\ matras' = ClearCells(matras)
    /\ last' = [op |-> "clear_grid", matra_number |-> 0, swar_input |-> <<>>,
                success |-> TRUE, message |-> NoMessage]
    /\ UNCHANGED <<taal, vibhags, query>>

FillFromSequenceReturns(r, sequence) ==
    /\ matras' = r.matras
    /\ last' = [op |-> "fill_from_sequence", matra_number |-> 0,
                swar_input |-> sequence, success |-> r.success,
                message |-> r.message]
    /\ UNCHANGED <<taal, vibhags, query>>

FillFromSequence(sequence) ==
    FillFromSequenceReturns(FillFromSequenceResult(matras, taal, sequence), sequence)

Next ==
    \/ \E m \in 0..(taal.total_matras + 1), x \in SetTexts : SetMatraSwars(m, x)
    \/ ClearGrid
    \/ \E x \in FillTexts : FillFromSequence(x)

Spec == Init /\ [][Next]_vars

\* fill_from_sequence called with the text get_all_swars_as_sequence returns
FillFromView == FillFromSequence(GetAllSwarsAsSequence(matras, vibhags))

NextReload ==
    \/ Next
    \/ FillFromView

SpecReload == Init /\ [][NextReload]_vars

(***************************************************************************)
(* The read-only operations of a Taal, on the catalog's Taals and on every *)
(* generated one.                                                          *)
(***************************************************************************)
InitTaal == \E t \in TAAL_LIBRARY \cup GeneratedTaals : Construct(t)

QueryVibhagForMatra(matra) ==
    LET r == GetVibhagForMatra(taal, matra)
    IN  /\ query' = [op |-> "get_vibhag_for_matra", matra |-> matra,
                     raised |-> r.raised, int |-> r.value,
                     seq |-> <<>>, str |-> <<>>]
        /\ UNCHANGED <<taal, matras, vibhags, last>>

QueryVibhagStartMatras ==
    /\ query' = [op |-> "get_vibhag_start_matras", matra |-> 0,
                 raised |-> FALSE, int |-> 0,
                 seq |-> GetVibhagStartMatras(taal), str |-> <<>>]
    /\ UNCHANGED <<taal, matras, vibhags, last>>

QueryMatraSymbol(matra) ==
    LET r == GetMatraSymbol(taal, matra)
    IN  /\ query' = [op |-> "get_matra_symbol", matra |-> matra,
                     raised |-> r.raised, int |-> 0,
                     seq |-> <<>>, str |-> r.value]
        /\ UNCHANGED <<taal, matras, vibhags, last>>

NextTaal ==
    \/ \E m \in 0..(taal.total_matras + 1) : QueryVibhagForMatra(m)
    \/ QueryVibhagStartMatras
    \/ \E m \in 0..(taal.total_matras + 1) : QueryMatraSymbol(m)

SpecTaal == InitTaal /\ [][NextTaal]_vars

(***************************************************************************)
(* The construction of a Taal: Taal(name, display_name, total_matras,      *)
(* vibhag_structure, sam_position, khali_positions, tali_positions).       *)
(***************************************************************************)
\* no Taal: the construction raised ValueError, or none was attempted yet
NoTaal == MkTaal("None", 0, <<>>, 0, <<>>, <<>>)

\* vibhag structures given to the constructor: none, one or two sizes, each
\* negative, zero or positive
StructureArgs == UNION {[1..k -> (-1)..MaxMatras] : k \in 0..2}

\* (khali_positions, tali_positions) given with total_matras = total: inside
\* the cycle, below it and above it
AccentArgs(total) ==
    { << <<>>, <<>> >>,
      << <<1>>, <<1>> >>,
      << <<0>>, <<1>> >>,
      << <<1>>, <<0>> >>,
      << <<total + 1>>, <<>> >>,
      << <<1>>, <<1, total + 1>> >>,
      << <<total>>, <<1, total>> >> }

\* the arguments of the constructor for one vibhag structure: total_matras
\* is its sum or one more
TaalArgsOn(s) ==
    {MkTaal("arg", total, s, 1, a[1], a[2]) :
        total \in {SumSeq(s), SumSeq(s) + 1}, a \in AccentArgs(SumSeq(s))}

\* the arguments of the catalog's Taals and the generated ones
TaalArgs == TAAL_LIBRARY \cup UNION {TaalArgsOn(s) : s \in StructureArgs}

InitNoTaal ==
    /\ taal = NoTaal
    /\ matras = <<>>
    /\ vibhags = <<>>
    /\ last = NoCall
    /\ query = NoQuery

\* Taal(...): the dataclass assigns the fields, then __post_init__ validates;
\* when it raises, the expression yields no Taal
NewTaal(args) ==
    /\ taal' = IF TaalPostInit(args) THEN args ELSE NoTaal
    /\ query' = [op |-> "Taal", args |-> args, raised |-> ~TaalPostInit(args)]
    /\ UNCHANGED <<matras, vibhags, last>>

NextNewTaal == \E args \in TaalArgs : NewTaal(args)

SpecNewTaal == InitNoTaal /\ [][NextNewTaal]_vars

(***************************************************************************)
(* The construction of a Note and its rendering.                           *)
(***************************************************************************)
\* Largest absolute octave given to the constructor.
MaxOctave == 4

\* bases given to the constructor: the seven names in upper, lower and mixed
\* case, and three that are no base
BaseArgs ==
    valid_bases
    \cup { <<"s","a">>, <<"r","e">>, <<"g","A">>, <<"m","a">>, <<"P","a">>,
           <<"D","h","a">>, <<"n","i">> }
    \cup { <<>>, <<"X","Y">>, <<"K","O","M","A","L">> }

OctaveArgs == (0 - MaxOctave)..MaxOctave

\* what Note(base, komal, tivra, octave) gives: r is the outcome of
\* __post_init__, raised stands for ValueError
NoteOutcome(r, args) ==
    [op |-> "Note", args |-> args, raised |-> ~r.ok, errors |-> r.errors,
     note |-> IF r.ok THEN <<r.note>> ELSE <<>>]

\* Note(base, komal, tivra, octave)
ConstructNote(base, komal, tivra, octave) ==
    /\ query' = NoteOutcome(NewNote(base, komal, tivra, octave),
                            [base |-> base, komal |-> komal, tivra |-> tivra,
                             octave |-> octave])
    /\ UNCHANGED <<taal, matras, vibhags, last>>

\* note.to_notation() on the Note just constructed
NoteToNotation ==
    /\ query.op = "Note"
    /\ ~query.raised
    /\ query' = [op |-> "to_notation", note |-> query.note,
                 str |-> ToNotation(query.note[1])]
    /\ UNCHANGED <<taal, matras, vibhags, last>>

NextNote ==
    \/ \E base \in BaseArgs, komal \in BOOLEAN, tivra \in BOOLEAN,
          octave \in OctaveArgs : ConstructNote(base, komal, tivra, octave)
    \/ NoteToNotation

SpecNote == InitNoTaal /\ [][NextNote]_vars

(***************************************************************************)
(* The parser: parse_note_spec, the rendering of the Note made from what   *)
(* it returns, and parse_sequence.                                         *)
(***************************************************************************)
\* the bases of the grammar, in upper and in lower case
BaseForms ==
    valid_bases
    \cup { <<"s","a">>, <<"r","e">>, <<"g","a">>, <<"m","a">>, <<"p","a">>,
           <<"d","h","a">>, <<"n","i">> }

\* <<text, komal, tivra>>: no modifier, or the one that is legal for base
ModifierForms(base) ==
    { << <<>>, FALSE, FALSE >> }
    \cup (IF Upper(base) \in komal_bases
          THEN { << <<"_","K">>, TRUE, FALSE >>, << <<"_","k">>, TRUE, FALSE >> }
          ELSE {})
    \cup (IF Upper(base) = <<"M","A">>
          THEN { << <<"_","T">>, FALSE, TRUE >>, << <<"_","t">>, FALSE, TRUE >> }
          ELSE {})

\* <<text, octave>>: no suffix, +d or -d with d in 1..3
OctaveForms ==
    { << <<>>, 0 >> }
    \cup { << <<"+", Digits[d + 1]>>, d >> : d \in 1..3 }
    \cup { << <<"-", Digits[d + 1]>>, 0 - d >> : d \in 1..3 }

\* <<text, base, komal, tivra, octave>> for the modifiers and suffixes of base
GrammarOn(base) ==
    { <<base \o m[1] \o o[1], base, m[2], m[3], o[2]>> :
         m \in ModifierForms(base), o \in OctaveForms }

\* the texts of the documented grammar, each with the Note it stands for
Grammar == UNION {GrammarOn(base) : base \in BaseForms}

\* texts outside the grammar: a sign without digits or with something else
\* after it, a sign after a sign, several dashes, a lone dash, two digits,
\* an underscore between digits, an octave out of range, no base
EdgeTexts ==
    { <<"S","A","+">>, <<"S","A","+","x">>, <<"S","A","-">>, <<"S","A","-","x">>,
      <<"S","A","+","-","2">>, <<"S","A","-","+","2">>, <<"S","A","-","-","1">>,
      <<"-">>, <<"-","-">>, <<"S","A","-","1","-">>, <<"S","A","+","1","2">>,
      <<"S","A","+","1","_","0">>, <<"P","A","+","4">>, <<"+","2">>,
      <<"X","Y">>, <<" ","n","i","_","k","-","2"," ">>, <<"S","A","_","k">> }

SpecTexts == {g[1] : g \in Grammar} \cup EdgeTexts

\* texts given to parse_sequence: empty, blank, the eight notes of the
\* documentation, an invalid token between two valid ones, invalid tokens
\* only, and tokens a grid cell may hold
SequenceTexts ==
    { <<>>,
      <<" ", "\t", " ">>,
      <<"S","A"," ","R","E","_","k"," ","G","A"," ","M","A","_","t"," ",
        "P","A","+","1"," ","D","H","A"," ","N","I"," ","S","A","+","1">>,
      <<"g","a","_","k","-","1"," ","X","Y","\t","M","A","_","t","+","2">>,
      <<"M","A","_","k"," ","P","A","_","t"," ","S","A","+","4">>,
      <<" ","-"," ","|"," ","N","I"," ">> }

\* NotationParser.parse_note_spec(text)
ParseNoteSpecCall(text) ==
    /\ query' = [op |-> "parse_note_spec", text |-> text,
                 spec |-> ParseNoteSpec(text)]
    /\ UNCHANGED <<taal, matras, vibhags, last>>

\* Note(base, komal, tivra, octave).to_notation() for the parsed spec: r is
\* the outcome of __post_init__, raised stands for its ValueError
RenderOutcome(r, text, spec) ==
    [op |-> "render_parsed", text |-> text, spec |-> spec, raised |-> ~r.ok,
     str |-> IF r.ok THEN ToNotation(r.note) ELSE <<>>]

RenderParsed ==
    /\ query.op = "parse_note_spec"
    /\ query' = RenderOutcome(NewNote(query.spec.base, query.spec.komal,
                                      query.spec.tivra, query.spec.octave),
                              query.text, query.spec)
    /\ UNCHANGED <<taal, matras, vibhags, last>>

\* NotationParser.parse_sequence(text): the ValueError of a Note is caught in
\* the loop and nothing else is raised
ParseSequenceCall(text) ==
    /\ query' = [op |-> "parse_sequence", text |-> text, raised |-> FALSE,
                 seq |-> ParseSequence(text)]
    /\ UNCHANGED <<taal, matras, vibhags, last>>

NextParse ==
    \/ \E text \in SpecTexts : ParseNoteSpecCall(text)
    \/ RenderParsed
    \/ \E text \in SequenceTexts : ParseSequenceCall(text)

SpecParse == InitNoTaal /\ [][NextParse]_vars

(***************************************************************************)
(* One cell under many texts: the grid of the Taal of one matra.           *)
(***************************************************************************)
CellTaal == MkTaal("generated", 1, <<1>>, 1, <<1>>, <<1>>)

\* tokens: the continuation token, valid notes (plain, komal in lower case,
\* tivra two octaves up, one octave down), a token that is no note, komal on
\* SA, an octave out of range, the pipe, two dashes
CellTokens ==
    { <<"-">>, <<"S","A">>, <<"r","e","_","k">>, <<"M","A","_","t","+","2">>,
      <<"N","I","-","1">>, <<"X","Y">>, <<"S","A","_","k">>, <<"P","A","+","4">>,
      <<"|">>, <<"-","-">> }

\* texts given to the cell: empty, blank, the continuation token between
\* spaces, every token, and every two tokens with a space between them
CellTexts ==
    { <<>>, <<" ", "\t">>, <<" ", "-", " ">> }
    \cup CellTokens
    \cup { a \o <<" ">> \o b : a \in CellTokens, b \in CellTokens }

InitCell == Construct(CellTaal)

NextCell ==
    \/ \E x \in CellTexts : SetMatraSwars(1, x)
    \/ ClearGrid
    \/ \E x \in CellTexts : FillFromSequence(x)

SpecCell == InitCell /\ [][NextCell]_vars

(***************************************************************************)
(* Two grids constructed on the same Taal object.  Here matras is the      *)
(* store of all MatraCell objects, a cell's position in it standing for    *)
(* the object's identity; vibhags holds the two BeatGrid objects, each     *)
(* with the references of its cells; query holds, for each grid, the cells *)
(* and the result of the same calls made on a grid that is alone.          *)
(***************************************************************************)
\* _initialize_grid that appends to cells made before: every grid after the
\* first one refers to the cells of the first
AllocCellsOnce(store, t) ==
    IF store = <<>> THEN [store |-> InitializeGrid(t).matras, base |-> 0]
    ELSE [store |-> store, base |-> 0]

\* the MatraCell objects that _initialize_grid creates, after those in store
AllocCells(store, t) ==
    [store |-> store \o InitializeGrid(t).matras, base |-> Len(store)]

\* the BeatGrid whose cells are the objects base + 1 .. base + total_matras
GridAt(t, base) ==
    [matras |-> [i \in 1..t.total_matras |-> base + i],
     vibhags |-> [k \in DOMAIN InitializeGrid(t).vibhags |->
                     [InitializeGrid(t).vibhags[k] EXCEPT
                         !.matras = [j \in DOMAIN @ |-> base + @[j]]]]]

\* the cells a grid refers to, in the order of its matras
Cells(store, grid) == [i \in DOMAIN grid.matras |-> store[grid.matras[i]]]

\* the store after the cells of grid were given the values cells
Store(store, grid, cells) ==
    [a \in DOMAIN store |->
        IF \E i \in DOMAIN grid.matras : grid.matras[i] = a
        THEN cells[CHOOSE i \in DOMAIN grid.matras : grid.matras[i] = a]
        ELSE store[a]]

PairTaals == {t \in GridTaals : t.total_matras <= 2}

\* texts given to set_matra_swars on the two grids: those that are not blank
PairSetTexts == {x \in SetTexts : Strip(x) # <<>>}

\* texts given to fill_from_sequence on the two grids: two tokens, and three
PairFillTexts ==
    { <<" ", "N", "I", "-", "1", "\t", "P", "A", " ">>,
      <<"S", "A", " ", "|", " ", "-">> }

\* grid1 = create_beat_grid(name); grid2 = create_beat_grid(name)
ConstructPair(t) ==
    /\ taal = t
    /\ matras = AllocCells(AllocCells(<<>>, t).store, t).store
    /\ vibhags = << GridAt(t, AllocCells(<<>>, t).base),
                    GridAt(t, AllocCells(AllocCells(<<>>, t).store, t).base) >>
    /\ last = [grid |-> 0, op |-> "__init__", matra_number |-> 0,
               swar_input |-> <<>>, success |-> TRUE, message |-> NoMessage]
    /\ query = [op |-> "alone",
                cells |-> <<InitializeGrid(t).matras, InitializeGrid(t).matras>>,
                success |-> TRUE, message |-> NoMessage]

InitPair == \E t \in PairTaals : ConstructPair(t)

\* a call on grid g returned r; the same call on the grid alone returned alone
PairReturns(g, r, alone, op, matra_number, swar_input) ==
    /\ matras' = Store(matras, vibhags[g], r.matras)
    /\ last' = [grid |-> g, op |-> op, matra_number |-> matra_number,
                swar_input |-> swar_input, success |-> r.success,
                message |-> r.message]
    /\ query' = [op |-> "alone", cells |-> [query.cells EXCEPT ![g] = alone.matras],
                 success |-> alone.success, message |-> alone.message]
    /\ UNCHANGED <<taal, vibhags>>

\* the (cells, success) of set_matra_swars with the message no call returns
SetResult(r) == [matras |-> r.matras, success |-> r.success, message |-> NoMessage]

\* the cells after clear_grid, which returns nothing
ClearResult(ms) == [matras |-> ClearCells(ms), success |-> TRUE, message |-> NoMessage]

PairSetMatraSwars(g, matra_number, swar_input) ==
    /\ g \in DOMAIN vibhags
    /\ PairReturns(g,
                   SetResult(SetMatraSwarsResult(Cells(matras, vibhags[g]), taal,
                                                 matra_number, swar_input)),
                   SetResult(SetMatraSwarsResult(query.cells[g], taal,
                                                 matra_number, swar_input)),
                   "set_matra_swars", matra_number, swar_input)

PairClearGrid(g) ==
    /\ g \in DOMAIN vibhags
    /\ PairReturns(g, ClearResult(Cells(matras, vibhags[g])),
                   ClearResult(query.cells[g]), "clear_grid", 0, <<>>)

PairFillFromSequence(g, sequence) ==
    /\ g \in DOMAIN vibhags
    /\ PairReturns(g,
                   FillFromSequenceResult(Cells(matras, vibhags[g]), taal, sequence),
                   FillFromSequenceResult(query.cells[g], taal, sequence),
                   "fill_from_sequence", 0, sequence)

NextPair ==
    \/ \E g \in 1..2, m \in 0..(taal.total_matras + 1), x \in PairSetTexts :
          PairSetMatraSwars(g, m, x)
    \/ \E g \in 1..2 : PairClearGrid(g)
    \/ \E g \in 1..2, x \in PairFillTexts : PairFillFromSequence(g, x)

SpecPair == InitPair /\ [][NextPair]_vars

(***************************************************************************)
(* The grid operations statement by statement.  A call computes the        *)
(* assignments it will make to the fields of the cells (query.todo), makes *)
(* them one at a time in the order of the code, and then returns.  Between *)
(* two assignments the cells are what a reader outside the call would      *)
(* find; the code takes no lock.  query.before holds the cells at the      *)
(* entry of the call, query.ret what the call returns.                     *)
(***************************************************************************)
\* set_swars on cell i: the assignment of self.swars (lines 46-51), then the
\* assignment of self.rendered_notation by _render_notation (lines 54, 56-79)
SetSwarsSteps(i, swar_input) ==
    << [kind |-> "swars", cell |-> i, swars |-> NewSwars(swar_input)],
       [kind |-> "render", cell |-> i, swars |-> <<>>] >>

\* clear_grid on n cells: matra.swars = [], then matra.rendered_notation = ''
ClearSteps(n) ==
    [k \in 1..(2 * n) |->
        IF k % 2 = 1 THEN [kind |-> "swars", cell |-> (k + 1) \div 2, swars |-> <<>>]
        ELSE [kind |-> "blank", cell |-> k \div 2, swars |-> <<>>]]

\* the loop of fill_from_sequence: set_swars(parts[i]) on cell i + 1; nothing
\* when the sequence is empty or has more tokens than the Taal has matras
FillSteps(t, parts) ==
    IF parts = <<>> \/ Len(parts) > t.total_matras THEN <<>>
    ELSE [k \in 1..(2 * Len(parts)) |->
             SetSwarsSteps((k + 1) \div 2, parts[(k + 1) \div 2])[2 - (k % 2)]]

Enter(todo, ret) ==
    /\ query.op = ""
    /\ query' = [op |-> "running", todo |-> todo, before |-> matras, ret |-> ret]
    /\ UNCHANGED <<taal, matras, vibhags, last>>

\* set_matra_swars is entered: the range check, then set_swars
EnterSetMatraSwars(matra_number, swar_input) ==
    Enter(IF matra_number < 1 \/ matra_number > taal.total_matras THEN <<>>
          ELSE SetSwarsSteps(matra_number, swar_input),
          [op |-> "set_matra_swars", matra_number |-> matra_number,
           swar_input |-> swar_input,
           success |-> ~(matra_number < 1 \/ matra_number > taal.total_matras),
           message |-> NoMessage])

EnterClearGrid ==
    Enter(ClearSteps(Len(matras)),
          [op |-> "clear_grid", matra_number |-> 0, swar_input |-> <<>>,
           success |-> TRUE, message |-> NoMessage])

\* fill_from_sequence is entered: clear_grid, then the loop over the tokens
EnterFillFromSequence(sequence) ==
    Enter(ClearSteps(Len(matras)) \o FillSteps(taal, Split(Strip(sequence))),
          [op |-> "fill_from_sequence", matra_number |-> 0, swar_input |-> sequence,
           success |-> FillFromSequenceResult(matras, taal, sequence).success,
           message |-> FillFromSequenceResult(matras, taal, sequence).message])

\* the next assignment of the call is made to the cell
StepOn(step) ==
    /\ matras' = [matras EXCEPT ![step.cell] =
                     IF step.kind = "swars" THEN [@ EXCEPT !.swars = step.swars]
                     ELSE IF step.kind = "render"
                     THEN [@ EXCEPT !.rendered_notation =
                              RenderNotation(matras[step.cell].swars)]
                     ELSE [@ EXCEPT !.rendered_notation = <<>>]]
    /\ query' = [query EXCEPT !.todo = Tail(@)]
    /\ UNCHANGED <<taal, vibhags, last>>

\* self.swars = ... in set_swars, matra.swars = [] in clear_grid
AssignSwars ==
    /\ query.op = "running"
    /\ query.todo # <<>>
    /\ Head(query.todo).kind = "swars"
    /\ StepOn(Head(query.todo))

\* self.rendered_notation = ... in _render_notation
AssignRendered ==
    /\ query.op = "running"
    /\ query.todo # <<>>
    /\ Head(query.todo).kind = "render"
    /\ StepOn(Head(query.todo))

\* matra.rendered_notation = '' in clear_grid
AssignBlank ==
    /\ query.op = "running"
    /\ query.todo # <<>>
    /\ Head(query.todo).kind = "blank"
    /\ StepOn(Head(query.todo))

\* the call returns
Return ==
    /\ query.op = "running"
    /\ query.todo = <<>>
    /\ last' = query.ret
    /\ query' = NoQuery
    /\ UNCHANGED <<taal, matras, vibhags>>

InitSteps == \E t \in PairTaals : Construct(t)

NextSteps ==
    \/ \E m \in 0..(taal.total_matras + 1), x \in SetTexts : EnterSetMatraSwars(m, x)
    \/ EnterClearGrid
    \/ \E x \in PairFillTexts : EnterFillFromSequence(x)
    \/ AssignSwars
    \/ AssignRendered
    \/ AssignBlank
    \/ Return

SpecSteps == InitSteps /\ [][NextSteps]_vars

(***************************************************************************)
(* Properties of the beat grid.                                            *)
(***************************************************************************)
\* the whitespace-split tokens of the text of the last call
LastTokens == Split(last.swar_input)

\* the text of the last call is empty or whitespace only
LastBlank == Strip(last.swar_input) = <<>>

LastBeatInRange ==
    1 <= last.matra_number /\ last.matra_number <= taal.total_matras

\* C1: in every reachable state each cell's rendered_notation is the render
\* of its current swars, and the empty string when the swars are empty.
C1_CacheFresh ==
    \A i \in DOMAIN matras :
        /\ matras[i].rendered_notation = RenderNotation(matras[i].swars)
        /\ matras[i].swars = <<>> => matras[i].rendered_notation = <<>>

\* a cell holds the three tokens set in it, and its cache differs from them
C1_Witness ==
    /\ last.op = "set_matra_swars"
    /\ \E i \in DOMAIN matras :
          /\ Len(matras[i].swars) = 3
          /\ matras[i].rendered_notation # Join(<<" ">>, matras[i].swars)

\* C2: fill_from_sequence with more tokens than total_matras returns failure
\* with the message, assigns no token and leaves every cell empty.
C2_FillTooMany ==
    (last.op = "fill_from_sequence" /\ Len(LastTokens) > taal.total_matras)
    => /\ ~last.success
       /\ last.message.kind = "Too many swars"
       /\ last.message.count = Len(LastTokens)
       /\ \A i \in DOMAIN matras :
             matras[i].swars = <<>> /\ matras[i].rendered_notation = <<>>
       /\ GetFilledCount(matras) = 0

C2_Witness ==
    /\ last.op = "fill_from_sequence"
    /\ Len(LastTokens) = taal.total_matras + 1
    /\ taal.total_matras >= 2
    /\ ~last.success

\* C3: fill_from_sequence with N <= total_matras tokens returns success, puts
\* token i in cell i for i in 1..N, leaves the cells after N empty, and the
\* filled count is N.
C3_FillWithin ==
    (last.op = "fill_from_sequence" /\ Len(LastTokens) <= taal.total_matras)
    => /\ last.success
       /\ \A i \in 1..Len(LastTokens) : matras[i].swars = <<LastTokens[i]>>
       /\ \A i \in (Len(LastTokens) + 1)..taal.total_matras :
             matras[i].swars = <<>>
       /\ GetFilledCount(matras) = Len(LastTokens)

C3_Witness ==
    /\ last.op = "fill_from_sequence"
    /\ last.success
    /\ Len(LastTokens) = 2
    /\ taal.total_matras = 3
    /\ GetFilledCount(matras) = 2

\* C4: set_matra_swars with a beat outside 1..total_matras returns the
\* failure indicator and leaves every cell as it was before the call.
C4_OutOfRangeUntouched ==
    [][(last'.op = "set_matra_swars"
        /\ (last'.matra_number < 1 \/ last'.matra_number > taal.total_matras))
       => (~last'.success /\ matras' = matras)]_vars

C4_Witness ==
    /\ last.op = "set_matra_swars"
    /\ ~LastBeatInRange
    /\ ~last.success
    /\ GetFilledCount(matras) >= 1

\* C5: a cell is empty or filled; a successful set_swars makes it filled when
\* the text is not blank and empty when it is blank, clear_grid makes it
\* empty, fill_from_sequence (clear_grid, then set_swars on the first cells)
\* leaves filled exactly the cells it assigned, and a call that does not
\* reach the cell leaves its state as it was.
C5_CellStateMachine ==
    [][\A i \in DOMAIN matras :
          IF last'.op = "set_matra_swars" /\ last'.matra_number = i
          THEN /\ last'.success
               /\ IsEmpty(matras'[i]) <=> Strip(last'.swar_input) = <<>>
          ELSE IF last'.op = "clear_grid"
          THEN IsEmpty(matras'[i])
          ELSE IF last'.op = "fill_from_sequence"
          THEN ~IsEmpty(matras'[i])
               <=> (last'.success /\ i <= Len(Split(last'.swar_input)))
          ELSE IsEmpty(matras'[i]) <=> IsEmpty(matras[i])]_vars

\* a blank text was set in a cell while another cell stays filled
C5_Witness ==
    /\ last.op = "set_matra_swars"
    /\ last.success
    /\ LastBlank
    /\ IsEmpty(matras[last.matra_number])
    /\ GetFilledCount(matras) >= 1

\* C6: the rendered line is total_matras fields joined by single spaces, one
\* per beat in order: the rendered_notation of a filled cell, "-" for an
\* empty one.
C6_RenderedLineFields ==
    GetRenderedNotation(matras)
        = Join(<<" ">>,
               [i \in 1..taal.total_matras |->
                   IF IsEmpty(matras[i]) THEN <<"-">>
                   ELSE matras[i].rendered_notation])

\* a line with a filled cell whose token has no notes, and an empty cell
C6_Witness ==
    /\ \E i \in DOMAIN matras : matras[i].swars = << <<"|">> >>
    /\ \E i \in DOMAIN matras : IsEmpty(matras[i])
    /\ \E i \in DOMAIN matras : Len(matras[i].swars) = 3

\* C7: fill_from_sequence called with the text that get_all_swars_as_sequence
\* returns succeeds and reproduces the swars of every cell.
C7_RoundTrip ==
    [][(last'.op = "fill_from_sequence"
        /\ last'.swar_input = GetAllSwarsAsSequence(matras, vibhags))
       => (/\ last'.success
           /\ \A i \in DOMAIN matras : matras'[i].swars = matras[i].swars)]_vars

(***************************************************************************)
(* Properties of the Taal.                                                 *)
(***************************************************************************)
\* the sum of the sizes of the first k vibhags
SizeOfFirst(t, k) == SumSeq(SubSeq(t.vibhag_structure, 1, k))

\* beat lies in the cumulative range of vibhag v
InVibhag(t, beat, v) ==
    /\ v \in 1..Len(t.vibhag_structure)
    /\ SizeOfFirst(t, v - 1) < beat
    /\ beat <= SizeOfFirst(t, v)

Positions(lst) == {lst[i] : i \in DOMAIN lst}

\* C8: the symbol of a beat is X on the sam, else 0 on a khali, else the
\* decimal vibhag number on a tali, else empty; the sam wins over a khali or
\* tali on the same beat; TeenTaal gives X, 0, 2 and empty on 1, 9, 5 and 16.
C8_SymbolPrecedence ==
    query.op = "get_matra_symbol"
    => /\ ~query.raised
       /\ query.str =
             IF query.matra = taal.sam_position THEN <<"X">>
             ELSE IF query.matra \in Positions(taal.khali_positions) THEN <<"0">>
             ELSE IF query.matra \in Positions(taal.tali_positions)
                  THEN Str(CHOOSE v \in 1..Len(taal.vibhag_structure) :
                              InVibhag(taal, query.matra, v))
                  ELSE <<>>
       /\ taal = TEENTAAL =>
             /\ query.matra = 1 => query.str = <<"X">>
             /\ query.matra = 9 => query.str = <<"0">>
             /\ query.matra = 5 => query.str = <<"2">>
             /\ query.matra = 16 => query.str = <<>>

\* Rupak: beat 1 is the sam and a khali, and its symbol is X
C8_Witness ==
    /\ taal = RUPAK
    /\ query.op = "get_matra_symbol"
    /\ query.matra = 1
    /\ query.matra \in Positions(taal.khali_positions)
    /\ query.str = <<"X">>

\* C9: for a beat in 1..total_matras get_vibhag_for_matra returns the one
\* vibhag whose cumulative range holds the beat; for any other beat it fails.
C9_VibhagOfBeat ==
    query.op = "get_vibhag_for_matra"
    => IF 1 <= query.matra /\ query.matra <= taal.total_matras
       THEN /\ ~query.raised
            /\ InVibhag(taal, query.matra, query.int)
            /\ \A w \in 1..Len(taal.vibhag_structure) :
                  InVibhag(taal, query.matra, w) => w = query.int
       ELSE query.raised

\* JhapTaal: beat 5 is the last beat of vibhag 2
C9_Witness ==
    /\ taal = JHAPTAAL
    /\ query.op = "get_vibhag_for_matra"
    /\ query.matra = 5
    /\ ~query.raised
    /\ query.int = 2

\* C10: get_vibhag_start_matras returns one beat per vibhag, in order, entry
\* k being 1 plus the sizes of the vibhags before k; the first entry is 1.
C10_StartPositions ==
    query.op = "get_vibhag_start_matras"
    => /\ Len(query.seq) = Len(taal.vibhag_structure)
       /\ query.seq[1] = 1
       /\ \A k \in 1..Len(taal.vibhag_structure) :
             query.seq[k] = 1 + SizeOfFirst(taal, k - 1)

C10_Witness ==
    /\ taal = JHAPTAAL
    /\ query.op = "get_vibhag_start_matras"
    /\ query.seq = <<1, 3, 6, 8>>

(***************************************************************************)
(* Properties of the construction of a Taal.                               *)
(***************************************************************************)
\* the sizes do not sum to total_matras
SumMismatch(t) == SumSeq(t.vibhag_structure) # t.total_matras

\* some position of lst lies outside 1..total_matras
SomeOutside(t, lst) == \E p \in Positions(lst) : p < 1 \/ p > t.total_matras

\* C11: the construction of a Taal fails, and yields no value, whenever the
\* vibhag sizes do not sum to total_matras or a khali or tali position lies
\* outside 1..total_matras; every Taal of TAAL_LIBRARY meets both conditions
\* and is constructed.
C11_ConstructionRejects ==
    /\ query.op = "Taal"
       => /\ (\/ SumMismatch(query.args)
              \/ SomeOutside(query.args, query.args.khali_positions)
              \/ SomeOutside(query.args, query.args.tali_positions))
             => (query.raised /\ taal = NoTaal)
          /\ query.args \in TAAL_LIBRARY => (~query.raised /\ taal = query.args)
    /\ \A t \in TAAL_LIBRARY :
          /\ ~SumMismatch(t)
          /\ ~SomeOutside(t, t.khali_positions)
          /\ ~SomeOutside(t, t.tali_positions)

\* the sizes sum to total_matras, the khali is inside and a tali is outside
C11_Witness ==
    /\ query.op = "Taal"
    /\ ~SumMismatch(query.args)
    /\ query.args.total_matras = 2
    /\ ~SomeOutside(query.args, query.args.khali_positions)
    /\ SomeOutside(query.args, query.args.tali_positions)
    /\ query.raised
    /\ taal = NoTaal

\* C12: every Taal that the construction yields has a positive total_matras
\* and a non-empty vibhag_structure of positive sizes.
C12_PositiveSizes ==
    (query.op = "Taal" /\ ~query.raised)
    => /\ taal.total_matras > 0
       /\ taal.vibhag_structure # <<>>
       /\ \A i \in DOMAIN taal.vibhag_structure : taal.vibhag_structure[i] > 0

(***************************************************************************)
(* Properties of the Note.                                                 *)
(***************************************************************************)
\* the five rules of validation, each stated on the constructor's arguments
RuleNames == {"base", "komal", "tivra", "komal_and_tivra", "octave"}

OctaveInRange(a) == -3 <= a.octave /\ a.octave <= 3

RuleViolated(a, rule) ==
    IF rule = "base" THEN Upper(a.base) \notin valid_bases
    ELSE IF rule = "komal"
    THEN a.komal /\ Upper(a.base) \notin
                       { <<"R","E">>, <<"G","A">>, <<"D","H","A">>, <<"N","I">> }
    ELSE IF rule = "tivra" THEN a.tivra /\ Upper(a.base) # <<"M","A">>
    ELSE IF rule = "komal_and_tivra" THEN a.komal /\ a.tivra
    ELSE ~OctaveInRange(a)

\* C13: with the octave in range, komal without tivra succeeds exactly on RE,
\* GA, DHA and NI, tivra without komal succeeds exactly on MA, and komal with
\* tivra fails on every base; the base is taken in any letter case.
C13_KomalTivraBases ==
    (query.op = "Note" /\ OctaveInRange(query.args))
    => /\ (query.args.komal /\ ~query.args.tivra)
          => (~query.raised
              <=> Upper(query.args.base) \in
                     { <<"R","E">>, <<"G","A">>, <<"D","H","A">>, <<"N","I">> })
       /\ (query.args.tivra /\ ~query.args.komal)
          => (~query.raised <=> Upper(query.args.base) = <<"M","A">>)
       /\ (query.args.komal /\ query.args.tivra) => query.raised

\* komal DHA given in mixed case is constructed with the base in upper case
C13_Witness ==
    /\ query.op = "Note"
    /\ query.args.base = <<"D","h","a">>
    /\ query.args.komal /\ ~query.args.tivra
    /\ query.args.octave = -3
    /\ ~query.raised
    /\ query.note[1].base = <<"D","H","A">>

\* C14: with base, komal and tivra valid, the construction succeeds for every
\* octave in -3..3 and fails for every octave outside.
C14_OctaveRange ==
    (/\ query.op = "Note"
     /\ \A rule \in RuleNames \ {"octave"} : ~RuleViolated(query.args, rule))
    => (~query.raised <=> (-3 <= query.args.octave /\ query.args.octave <= 3))

\* tivra MA with octave -4 fails on the octave alone
C14_Witness ==
    /\ query.op = "Note"
    /\ query.args.base = <<"m","a">>
    /\ query.args.tivra
    /\ query.args.octave = -4
    /\ query.raised
    /\ query.errors = <<"octave">>

\* C15: the error of a failed construction names every violated rule, each
\* once, and no other; the construction succeeds exactly when no rule is
\* violated.
C15_AllViolatedRules ==
    query.op = "Note"
    => /\ {query.errors[i] : i \in DOMAIN query.errors}
             = {rule \in RuleNames : RuleViolated(query.args, rule)}
       /\ Len(query.errors)
             = Cardinality({rule \in RuleNames : RuleViolated(query.args, rule)})
       /\ query.raised <=> (\E rule \in RuleNames : RuleViolated(query.args, rule))
       /\ query.raised <=> query.note = <<>>

\* all five rules are violated at once
C15_Witness ==
    /\ query.op = "Note"
    /\ query.raised
    /\ Len(query.errors) = 5
    /\ query.args.base = <<"X","Y">>

\* the characters of str that are no combining mark, in order
Marks ==
    {COMBINING_DOT_ABOVE, COMBINING_DOT_BELOW, COMBINING_UNDERLINE,
     COMBINING_VERTICAL_LINE_ABOVE}

IsLetter(c) == c \notin Marks

\* C16: a valid Note with octave 0 renders as its base with one underline
\* after each character when komal, one cap after the first character and
\* nowhere else when tivra, and nothing added otherwise; komal RE renders as
\* R, underline, E, underline.
C16_RenderMarks ==
    (query.op = "to_notation" /\ query.note[1].octave = 0)
    => /\ SelectSeq(query.str, IsLetter) = query.note[1].base
       /\ IF query.note[1].komal
          THEN /\ Len(query.str) = 2 * Len(query.note[1].base)
               /\ \A i \in 1..Len(query.note[1].base) :
                     /\ query.str[2 * i - 1] = query.note[1].base[i]
                     /\ query.str[2 * i] = COMBINING_UNDERLINE
          ELSE IF query.note[1].tivra
          THEN /\ Len(query.str) = Len(query.note[1].base) + 1
               /\ query.str[1] = query.note[1].base[1]
               /\ query.str[2] = COMBINING_VERTICAL_LINE_ABOVE
               /\ \A i \in 2..Len(query.note[1].base) :
                     query.str[i + 1] = query.note[1].base[i]
          ELSE query.str = query.note[1].base
       /\ (query.note[1].base = <<"R","E">> /\ query.note[1].komal)
          => query.str = <<"R", COMBINING_UNDERLINE, "E", COMBINING_UNDERLINE>>

\* komal DHA: three characters, three underlines
C16_Witness ==
    /\ query.op = "to_notation"
    /\ query.note[1].base = <<"D","H","A">>
    /\ query.note[1].komal
    /\ query.note[1].octave = 0
    /\ Len(query.str) = 6

Unmarked(text) == Remove(Remove(Upper(Strip(text)), <<"_","K">>), <<"_","T">>)

\* the position of the first ch in s
FirstIndex(s, ch) == CHOOSE i \in DOMAIN s : s[i] = ch /\ \A j \in 1..(i - 1) : s[j] # ch

\* what follows the first ch of s, up to the next ch or the end
AfterSign(s, ch) == SplitOn(SubSeq(s, FirstIndex(s, ch) + 1, Len(s)), ch)[1]

AllDigits(s) == s # <<>> /\ \A i \in DOMAIN s : IsDigit(s[i])

\* the octave the claim gives to the unmarked text rest
ClaimedOctave(rest) ==
    IF Count(rest, "+") > 0
    THEN IF AllDigits(AfterSign(rest, "+"))
         THEN DigitsValue(AfterSign(rest, "+"), 0) ELSE 1
    ELSE IF Count(rest, "-") = 1
    THEN IF AllDigits(AfterSign(rest, "-"))
         THEN 0 - DigitsValue(AfterSign(rest, "-"), 0) ELSE -1
    ELSE 0

\* C18: parse_note_spec, after uppercasing and removing the markers, reads
\* the octave so: a + followed by digits gives that number, and +1 when the
\* digits are absent or unparsable; otherwise one single - gives minus the
\* digits after it, and -1 when they are unparsable; two or more - give octave
\* 0 with the dashes left in the base; with neither sign the octave is 0.
C18_OctaveExtraction ==
    query.op = "parse_note_spec"
    => /\ query.spec.octave = ClaimedOctave(Unmarked(query.text))
       /\ (Count(Unmarked(query.text), "+") = 0
           /\ Count(Unmarked(query.text), "-") >= 2)
          => (query.spec.octave = 0 /\ query.spec.base = Unmarked(query.text))

\* the Note that the grammar gives to text
DirectOf(text) == CHOOSE g \in Grammar : g[1] = text

\* C19: for every text of the grammar (a valid base, at most one modifier
\* legal for it, at most one suffix +d or -d with d in 1..3) the Note made
\* from parse_note_spec(text) is valid and renders exactly as the Note made
\* directly from the base, komal, tivra and octave the text stands for.
C19_ParseRenderRoundTrip ==
    (query.op = "render_parsed" /\ \E g \in Grammar : g[1] = query.text)
    => /\ ~query.raised
       /\ NewNote(DirectOf(query.text)[2], DirectOf(query.text)[3],
                  DirectOf(query.text)[4], DirectOf(query.text)[5]).ok
       /\ query.str
             = ToNotation(NewNote(DirectOf(query.text)[2], DirectOf(query.text)[3],
                                  DirectOf(query.text)[4], DirectOf(query.text)[5]).note)

\* ga_k-3: komal GA three octaves down, from lower case
C19_Witness ==
    /\ query.op = "render_parsed"
    /\ query.text = <<"g","a","_","k","-","3">>
    /\ ~query.raised
    /\ query.str = <<"G", COMBINING_UNDERLINE, "A", COMBINING_UNDERLINE,
                     COMBINING_DOT_BELOW, COMBINING_DOT_BELOW, COMBINING_DOT_BELOW>>

\* the token parses to the arguments of a valid Note
TokenValid(token) ==
    \A rule \in RuleNames : ~RuleViolated(ParseNoteSpec(token), rule)

\* the tokens of the text given to parse_sequence that make a valid Note
ValidTokens == SelectSeq(Split(query.text), TokenValid)

\* C20: parse_sequence never fails; it returns, in the order of the text, one
\* Note for each whitespace-separated token that makes a valid Note and
\* nothing for each token that does not; an empty or blank text gives the
\* empty sequence; "SA RE_k GA MA_t PA+1 DHA NI SA+1" gives eight Notes with
\* the modifiers its tokens name.
C20_ParseSequenceSkips ==
    query.op = "parse_sequence"
    => /\ ~query.raised
       /\ Len(query.seq) = Len(ValidTokens)
       /\ \A i \in 1..Len(ValidTokens) :
             /\ query.seq[i].base = Upper(ParseNoteSpec(ValidTokens[i]).base)
             /\ query.seq[i].komal = ParseNoteSpec(ValidTokens[i]).komal
             /\ query.seq[i].tivra = ParseNoteSpec(ValidTokens[i]).tivra
             /\ query.seq[i].octave = ParseNoteSpec(ValidTokens[i]).octave
       /\ Strip(query.text) = <<>> => query.seq = <<>>
       /\ Len(Split(query.text)) = 8
          => /\ [i \in 1..Len(query.seq) |-> query.seq[i].base]
                   = << <<"S","A">>, <<"R","E">>, <<"G","A">>, <<"M","A">>,
                        <<"P","A">>, <<"D","H","A">>, <<"N","I">>, <<"S","A">> >>
             /\ [i \in 1..Len(query.seq) |-> query.seq[i].komal]
                   = <<FALSE, TRUE, FALSE, FALSE, FALSE, FALSE, FALSE, FALSE>>
             /\ [i \in 1..Len(query.seq) |-> query.seq[i].tivra]
                   = <<FALSE, FALSE, FALSE, TRUE, FALSE, FALSE, FALSE, FALSE>>
             /\ [i \in 1..Len(query.seq) |-> query.seq[i].octave]
                   = <<0, 0, 0, 0, 1, 0, 0, 1>>

\* an invalid token between two valid ones is left out
C20_Witness ==
    /\ query.op = "parse_sequence"
    /\ Len(Split(query.text)) = 3
    /\ Len(query.seq) = 2
    /\ query.seq[1].base = <<"G","A">> /\ query.seq[1].octave = -1
    /\ query.seq[2].base = <<"M","A">> /\ query.seq[2].tivra

(***************************************************************************)
(* Properties of the cells and of the grid operations.                     *)
(***************************************************************************)
\* the Note that a valid token stands for
TokenNote(token) ==
    [base |-> Upper(ParseNoteSpec(token).base), komal |-> ParseNoteSpec(token).komal,
     tivra |-> ParseNoteSpec(token).tivra, octave |-> ParseNoteSpec(token).octave]

\* the part of the rendered notation that the claim gives to a token
ClaimedPart(token) ==
    IF token = <<"-">> THEN <<"-">>
    ELSE IF TokenValid(token) THEN ToNotation(TokenNote(token))
    ELSE token

\* C21: a cell's rendered_notation is the single-space join of one part per
\* token of its swars, in order: "-" for the continuation token, the render
\* of the note for a token that makes a valid note, the token itself for a
\* token that makes none (a base that is no note, a modifier illegal for the
\* base, an octave out of range); such a token never makes the update of the
\* grid fail; set_matra_swars(9, "-") on a grid of TeenTaal leaves "-" as the
\* rendered_notation of cell 9.
C21_RenderedParts ==
    /\ \A i \in DOMAIN matras :
          matras[i].rendered_notation
             = Join(<<" ">>, [k \in DOMAIN matras[i].swars |->
                                 ClaimedPart(matras[i].swars[k])])
    /\ (last.op = "set_matra_swars" /\ LastBeatInRange)
       => /\ last.success
          /\ Strip(last.swar_input) = <<"-">>
             => matras[last.matra_number].rendered_notation = <<"-">>
    /\ SetMatraSwarsResult(InitializeGrid(TEENTAAL).matras, TEENTAAL, 9, <<"-">>).success
    /\ SetMatraSwarsResult(InitializeGrid(TEENTAAL).matras, TEENTAAL, 9,
                           <<"-">>).matras[9].rendered_notation = <<"-">>

\* an octave out of range stays as typed, before a komal note that is rendered
C21_Witness ==
    /\ last.op = "set_matra_swars"
    /\ last.success
    /\ matras[1].swars = << <<"P","A","+","4">>, <<"r","e","_","k">> >>
    /\ matras[1].rendered_notation
          = <<"P","A","+","4"," ","R",COMBINING_UNDERLINE,"E",COMBINING_UNDERLINE>>

\* C22: set_matra_swars with a beat in 1..total_matras returns success, and
\* the swars of that cell are then <<"-">> when the trimmed text is "-", the
\* whitespace-separated tokens of the trimmed text when it is otherwise not
\* empty, and empty when the text is blank; nothing of the swars the cell held
\* before remains.
C22_SetCellSwars ==
    (last.op = "set_matra_swars" /\ LastBeatInRange)
    => /\ last.success
       /\ matras[last.matra_number].swars
             = (IF Strip(last.swar_input) = <<"-">> THEN << <<"-">> >>
                ELSE IF LastBlank THEN <<>>
                ELSE LastTokens)
       /\ \A k \in DOMAIN matras[last.matra_number].swars :
             /\ matras[last.matra_number].swars[k] # <<>>
             /\ \A j \in DOMAIN matras[last.matra_number].swars[k] :
                   ~IsSpace(matras[last.matra_number].swars[k][j])

\* the three tokens were set in the last cell of a grid whose other cells
\* hold the continuation token
C22_Witness ==
    /\ last.op = "set_matra_swars"
    /\ last.success
    /\ last.matra_number = 3
    /\ matras[3].swars = << <<"r","e","_","k">>, <<"X","Y">>, <<"M","A","_","t","+","2">> >>
    /\ matras[1].swars = << <<"-">> >>
    /\ matras[2].swars = << <<"-">> >>

\* cells of a grid that was just constructed: all empty, none counted as
\* filled, and the grid not complete
FreshCells(ms) ==
    /\ \A i \in DOMAIN ms : ms[i].swars = <<>> /\ ms[i].rendered_notation = <<>>
    /\ GetFilledCount(ms) = 0
    /\ ~IsComplete(ms)

\* C23: a grid just constructed on a legal Taal has total_matras cells, all
\* with empty swars and empty rendered_notation, a filled count of 0 and is
\* not complete (also for each Taal of the catalog); after any sequence of
\* grid operations the grid still has total_matras cells.
C23_FreshGridAndSize ==
    /\ Len(matras) = taal.total_matras
    /\ last.op = "__init__" => FreshCells(matras)
    /\ \A t \in TAAL_LIBRARY :
          /\ Len(InitializeGrid(t).matras) = t.total_matras
          /\ FreshCells(InitializeGrid(t).matras)

\* a grid of three matras in two vibhags keeps its three cells after a
\* sequence of four tokens was refused
C23_Witness ==
    /\ last.op = "fill_from_sequence"
    /\ ~last.success
    /\ last.message.count = 4
    /\ taal.total_matras = 3
    /\ Len(matras) = 3
    /\ Len(vibhags) = 2

\* C24: after clear_grid, whatever the operations before it, the grid cannot
\* be told from one just constructed on the same Taal: every cell has empty
\* swars and empty rendered_notation and equals the fresh cell of its beat,
\* and get_all_swars_as_sequence, get_rendered_notation, get_filled_count and
\* is_complete return what they return on the fresh grid.
C24_ClearIsFresh ==
    last.op = "clear_grid"
    => /\ \A i \in DOMAIN matras :
             matras[i].swars = <<>> /\ matras[i].rendered_notation = <<>>
       /\ matras = InitializeGrid(taal).matras
       /\ vibhags = InitializeGrid(taal).vibhags
       /\ GetAllSwarsAsSequence(matras, vibhags)
             = GetAllSwarsAsSequence(InitializeGrid(taal).matras,
                                     InitializeGrid(taal).vibhags)
       /\ GetRenderedNotation(matras)
             = GetRenderedNotation(InitializeGrid(taal).matras)
       /\ GetFilledCount(matras) = GetFilledCount(InitializeGrid(taal).matras)
       /\ IsComplete(matras) <=> IsComplete(InitializeGrid(taal).matras)

\* clear_grid returned on a grid of three matras in two vibhags, whose line
\* is again three dashes
C24_Witness ==
    /\ last.op = "clear_grid"
    /\ Len(matras) = 3
    /\ Len(vibhags) = 2
    /\ GetRenderedNotation(matras) = <<"-", " ", "-", " ", "-">>

\* C25: two grids constructed on the same Taal have no cell in common; under
\* every interleaving of set_matra_swars, fill_from_sequence and clear_grid on
\* the two grids a call on one grid leaves every cell of the other grid and
\* the Taal as they were, and each grid's cells and results are those of the
\* same calls made on that grid alone.
C25_GridsIndependent ==
    [][/\ \A i \in DOMAIN vibhags[1].matras, j \in DOMAIN vibhags[2].matras :
             vibhags[1].matras[i] # vibhags[2].matras[j]
       /\ taal' = taal
       /\ vibhags' = vibhags
       /\ \A g \in 1..2 :
             /\ g # last'.grid
                => Cells(matras', vibhags'[g]) = Cells(matras, vibhags[g])
             /\ Cells(matras', vibhags'[g]) = query'.cells[g]
       /\ last'.success = query'.success
       /\ last'.message = query'.message]_vars

\* the second grid was cleared while the first holds three tokens in its
\* first cell
C25_Witness ==
    /\ last.op = "clear_grid"
    /\ last.grid = 2
    /\ Len(Cells(matras, vibhags[1])[1].swars) = 3
    /\ GetFilledCount(Cells(matras, vibhags[2])) = 0
    /\ GetFilledCount(Cells(matras, vibhags[1])) = 2

\* inside a call the swars of cell i are no longer those at the entry of the
\* call while its rendered_notation is still the one at the entry, which is
\* not the render of the swars the cell holds now
StaleWindow(i) ==
    /\ matras[i].swars # query.before[i].swars
    /\ matras[i].rendered_notation = query.before[i].rendered_notation
    /\ matras[i].rendered_notation # RenderNotation(matras[i].swars)

\* C26: the change of a cell's swars and the recomputation of its
\* rendered_notation are one atomic step: in no state between the statements
\* of set_swars, set_matra_swars, fill_from_sequence or clear_grid, where a
\* concurrent reader would see the cell, have the swars changed while the
\* rendered_notation is still the render of the old swars.
C26_NoStaleWindow ==
    query.op = "running" => \A i \in DOMAIN matras : ~StaleWindow(i)

\* C27: the grid constructed on a legal Taal agrees with the Taal: cell i has
\* matra_number i, the vibhag_number get_vibhag_for_matra(i) returns, the
\* is_sam, is_khali and is_tali of the Taal's tests and the symbol
\* get_matra_symbol(i) returns; the VibhagGroups are numbered 1, 2, ... in
\* order, are contiguous and disjoint and cover 1..total_matras, their
\* start_matra values are get_vibhag_start_matras(), and each group holds
\* exactly the cells start_matra..end_matra.
C27_GridAgreesWithTaal ==
    /\ Len(matras) = taal.total_matras
    /\ \A i \in DOMAIN matras :
          /\ matras[i].matra_number = i
          /\ ~GetVibhagForMatra(taal, i).raised
          /\ matras[i].vibhag_number = GetVibhagForMatra(taal, i).value
          /\ matras[i].is_sam <=> TaalIsSam(taal, i)
          /\ matras[i].is_khali <=> TaalIsKhali(taal, i)
          /\ matras[i].is_tali <=> TaalIsTali(taal, i)
          /\ matras[i].symbol = GetMatraSymbol(taal, i).value
    /\ Len(vibhags) = Len(taal.vibhag_structure)
    /\ vibhags[1].start_matra = 1
    /\ vibhags[Len(vibhags)].end_matra = taal.total_matras
    /\ \A k \in DOMAIN vibhags :
          /\ vibhags[k].vibhag_number = k
          /\ vibhags[k].start_matra <= vibhags[k].end_matra
          /\ k > 1 => vibhags[k].start_matra = vibhags[k - 1].end_matra + 1
          /\ vibhags[k].start_matra = GetVibhagStartMatras(taal)[k]
          /\ Len(vibhags[k].matras)
                = vibhags[k].end_matra - vibhags[k].start_matra + 1
          /\ \A j \in DOMAIN vibhags[k].matras :
                /\ vibhags[k].matras[j] = vibhags[k].start_matra + j - 1
                /\ matras[vibhags[k].matras[j]].matra_number
                      = vibhags[k].start_matra + j - 1
                /\ matras[vibhags[k].matras[j]].vibhag_number = k

\* the grid of Jhaptaal: beat 6 is the khali that opens the third vibhag, and
\* the Taal was asked for the vibhag of beat 6
C27_Witness ==
    /\ Len(matras) = 10
    /\ Len(vibhags) = 4
    /\ matras[6].vibhag_number = 3
    /\ matras[6].is_khali
    /\ matras[6].symbol = <<"0">>
    /\ vibhags[3].start_matra = 6
    /\ vibhags[3].end_matra = 7
    /\ query.op = "get_vibhag_for_matra"
    /\ query.matra = 6
    /\ query.int = 3

\* C28: a successful set_matra_swars(b, text) changes nothing but the swars
\* and the rendered_notation of cell b; and no grid operation changes the
\* matra_number, vibhag_number, is_sam, is_khali, is_tali or symbol of any
\* cell, the number of cells, the vibhag groups, or the Taal.
C28_Frame ==
    [][/\ taal' = taal
       /\ vibhags' = vibhags
       /\ Len(matras') = Len(matras)
       /\ \A i \in DOMAIN matras :
             /\ matras'[i].matra_number = matras[i].matra_number
             /\ matras'[i].vibhag_number = matras[i].vibhag_number
             /\ matras'[i].is_sam = matras[i].is_sam
             /\ matras'[i].is_khali = matras[i].is_khali
             /\ matras'[i].is_tali = matras[i].is_tali
             /\ matras'[i].symbol = matras[i].symbol
             /\ (last'.op = "set_matra_swars" /\ last'.success
                 /\ i # last'.matra_number)
                => (/\ matras'[i].swars = matras[i].swars
                    /\ matras'[i].rendered_notation = matras[i].rendered_notation)]_vars

\* the continuation token was set in the middle cell of one vibhag of three
\* matras whose other cells hold three tokens each
C28_Witness ==
    /\ last.op = "set_matra_swars"
    /\ last.success
    /\ last.matra_number = 2
    /\ Len(vibhags) = 1
    /\ Len(matras) = 3
    /\ matras[2].swars = << <<"-">> >>
    /\ Len(matras[1].swars) = 3
    /\ Len(matras[3].swars) = 3

\* C29: in every reachable state of the grid a cell's swars are empty exactly
\* when its rendered_notation is the empty string, and is_empty() is true
\* exactly when get_display_text() is empty.
C29_EmptyIffNoText ==
    \A i \in DOMAIN matras :
        /\ matras[i].swars = <<>> <=> matras[i].rendered_notation = <<>>
        /\ IsEmpty(matras[i]) <=> GetDisplayText(matras[i]) = <<>>

\* the cell holds the continuation token alone and shows it
C29_Witness ==
    /\ last.op = "fill_from_sequence"
    /\ last.success
    /\ matras[1].swars = << <<"-">> >>
    /\ ~IsEmpty(matras[1])
    /\ GetDisplayText(matras[1]) = <<"-">>

\* C30: the cells after fill_from_sequence(text) and the (success, message)
\* it returns depend on the Taal and the text only: from every reachable
\* state they are those of the call on the grid just constructed on the Taal,
\* so two grids of the Taal in different states end alike; and a second call
\* with the same text leaves the grid and the result of the first.
C30_FillDeterministic ==
    [][last'.op = "fill_from_sequence"
       => /\ matras'
                = FillFromSequenceResult(InitializeGrid(taal).matras, taal,
                                         last'.swar_input).matras
          /\ last'.success
                = FillFromSequenceResult(InitializeGrid(taal).matras, taal,
                                         last'.swar_input).success
          /\ last'.message
                = FillFromSequenceResult(InitializeGrid(taal).matras, taal,
                                         last'.swar_input).message
          /\ (last.op = "fill_from_sequence"
              /\ last.swar_input = last'.swar_input)
             => (matras' = matras /\ last' = last)]_vars

\* two tokens filled the first two cells of a grid of three matras in two
\* vibhags
C30_Witness ==
    /\ last.op = "fill_from_sequence"
    /\ last.success
    /\ last.message.kind = "Filled"
    /\ Len(vibhags) = 2
    /\ Len(matras) = 3
    /\ matras[1].swars = << <<"N","I","-","1">> >>
    /\ matras[2].swars = << <<"P","A">> >>
    /\ matras[3].swars = <<>>

=============================================================================
